---- MODULE Spec2Model ----
(***************************************************************************)
(* Model of the Misol weather-station UART component.                      *)
(*                                                                         *)
(* The repository carries two builds of the component:                     *)
(*   "misol_weather"  src/unnamed/part_000 with the class declaration at   *)
(*                    src/components/misol_weather/weather_station.cpp     *)
(*                    lines 349-422;                                       *)
(*   "misol"          src/components/misol_weather/weather_station.cpp     *)
(*                    lines 1-345 (built without USE_TEXT_SENSOR).         *)
(* loop(), reset_sub_entities_() and check_packet_() agree between the two *)
(* up to the name and encoding of the precipitation baseline; the two      *)
(* process_packet_() bodies differ and are modelled separately.            *)
(*                                                                         *)
(* The record ws keeps the field names of build "misol_weather"; in build   *)
(* "misol" its previous_precipitation_ and                                 *)
(* previous_precipitation_timestamp_ stand for previos_precipitation_ and  *)
(* previos_precipitation_timestamp_, where 0xFFFF encodes "no baseline".   *)
(* Night thresholds and UV intensities are held in tenths (4.5 is 45).     *)
(*                                                                         *)
(* Time is in milliseconds.  A published float is the exact rational       *)
(* <<numerator, denominator>> of the C++ expression (binary rounding is    *)
(* not modelled); NAN is <<0, 0>>; a published bool b is <<1, 1>> for true *)
(* and <<0, 1>> for false.                                                 *)
(***************************************************************************)
EXTENDS Integers, Sequences, FiniteSets, TLC

VARIABLES
  build,    \* which translation unit is compiled: "misol_weather" or "misol"
  now,      \* std::chrono::steady_clock, last value read by loop()
  ws,       \* the WeatherStation object: its fields and its sub-entities
  statics,  \* the function-local statics of detect_night
  tick,     \* what the last call of ws.loop() did (its log lines and locals)
  peer,     \* a second WeatherStation object of the same process, or NoStation
  heard     \* history: bytes were available on some call of ws.loop() since
            \* its last reset action (since construction, if it never reset)

vars == <<build, now, ws, statics, tick, peer, heard>>

----------------------------------------------------------------------------
(* Program constants *)

COMMUNICATION_TIMOUT == 120000
PRECIPITATION_INTENSITY_INTERVAL == 180000
DefaultLowerNightThreshold == 45
DefaultUpperNightThreshold == 55
SyncByte == 36

WRONG_PACKET == "WRONG_PACKET"
BASIC_PACKET == "BASIC_PACKET"
BASIC_WITH_PRESSURE == "BASIC_WITH_PRESSURE"

\* esphome::optional<uint16_t>{} : no value
NullOpt == -1

\* The configuration declares a single weather station
NoStation == <<>>

NumericChannels ==
  {"temperature", "humidity", "pressure", "wind_speed", "wind_gust",
   "wind_direction_degrees", "accumulated_precipitation", "uv_intensity",
   "uv_index", "light", "precipitation_intensity"}
BinaryChannels == {"battery_level", "night"}
Channels == NumericChannels \cup BinaryChannels

----------------------------------------------------------------------------
(* Values handed to publish_state *)

NAN == <<0, 0>>
Rat(n, d) == <<n, d>>
Bool(b) == IF b THEN <<1, 1>> ELSE <<0, 1>>
IsNan(v) == v[2] = 0

----------------------------------------------------------------------------
(* Integer helpers for the C++ byte arithmetic *)

RECURSIVE BitAnd(_, _)
BitAnd(a, b) ==
  IF a = 0 \/ b = 0 THEN 0
  ELSE (a % 2) * (b % 2) + 2 * BitAnd(a \div 2, b \div 2)

RECURSIVE Pow2(_)
Pow2(n) == IF n = 0 THEN 1 ELSE 2 * Pow2(n - 1)

Shl(x, n) == x * Pow2(n)

\* data[i] of a C array held as a 1-based sequence
At(data, i) == data[i + 1]

\* uint8_t checksum = 0; for (i = from; i < to; i++) checksum += data[i];
RECURSIVE Checksum(_, _, _)
Checksum(data, from, to) ==
  IF from >= to THEN 0
  ELSE (Checksum(data, from, to - 1) + At(data, to - 1)) % 256

\* std::chrono::duration_cast<std::chrono::seconds>: truncation toward zero
DurationCastSeconds(ms) ==
  IF ms >= 0 THEN ms \div 1000 ELSE -((-ms) \div 1000)

----------------------------------------------------------------------------
(* Sub-entities: SUB_SENSOR / SUB_BINARY_SENSOR pointers and their sinks.  *)
(* An operation yields the sequence of <<channel, value>> it publishes, in *)
(* program order; Deliver hands the sequence to the sinks.                 *)

\* if (this->X_ != nullptr) this->X_->publish_state(v);
Publish(sensors, ch, v) ==
  IF ch \in sensors THEN << <<ch, v>> >> ELSE <<>>

\* this->X_->publish_state(v) with no null check.  With X not configured
\* the pointer is null and the call is undefined behaviour: publish_state
\* reads and writes members of the object at address 0, which is mapped
\* neither on the host nor on the ESP targets, so the access faults and the
\* process ends inside the call (crashed), with nothing published.
PublishUnchecked(sensors, ch, v) ==
  [crashed |-> ch \notin sensors,
   pubs    |-> IF ch \in sensors THEN << <<ch, v>> >> ELSE <<>>]

\* The state each sink holds after the publications pubs[i..]
RECURSIVE Deliver(_, _, _)
Deliver(state, pubs, i) ==
  IF i > Len(pubs) THEN state
  ELSE Deliver([state EXCEPT ![pubs[i][1]] = pubs[i][2]], pubs, i + 1)

----------------------------------------------------------------------------
(* detect_night: hysteresis on function-local statics *)

(* The arguments of detect_night are single-precision floats.  A float is  *)
(* modelled exactly: [m, e] stands for m * 2^-e, with 2^23 <= m < 2^24, or *)
(* m = 0 for zero.  The values that occur are not negative.                *)

MantissaMin == 8388608
MantissaMax == 16777216

\* Shift x (> 0) left until x / 10 has 24 significant bits
RECURSIVE ScaleTenths(_, _)
ScaleTenths(x, e) ==
  IF x >= 10 * MantissaMin THEN [x |-> x, e |-> e]
  ELSE CHOOSE s \in {ScaleTenths(x2, e1) : x2 \in {2 * x}, e1 \in {e + 1}} : TRUE

\* The float nearest to n / 10 (ties to even): uv_intensity_val / 10.0
\* converted to float, and a threshold given in tenths
FloatOfTenths(n) ==
  IF n = 0 THEN [m |-> 0, e |-> 0]
  ELSE LET Nearest(s) ==
             LET q == s.x \div 10
                 r == s.x % 10
                 m == IF r > 5 \/ (r = 5 /\ q % 2 = 1) THEN q + 1 ELSE q
             IN IF m = MantissaMax THEN [m |-> MantissaMin, e |-> s.e - 1]
                                   ELSE [m |-> m, e |-> s.e]
       IN CHOOSE f \in {Nearest(s) : s \in {ScaleTenths(n, 0)}} : TRUE

\* Round x * 2^-e (x >= 2^23) to 24 significant bits, ties to even; round
\* is the last bit shifted out, sticky tells that a lower bit was set
RECURSIVE FloatRound(_, _, _, _)
FloatRound(x, e, round, sticky) ==
  IF x >= MantissaMax
    THEN CHOOSE f \in {FloatRound(x2, e1, x % 2, st) :
                          x2 \in {x \div 2}, e1 \in {e - 1},
                          st \in {sticky \/ round = 1}} : TRUE
    ELSE LET m == IF round = 1 /\ (sticky \/ x % 2 = 1) THEN x + 1 ELSE x
         IN IF m = MantissaMax THEN [m |-> MantissaMin, e |-> e - 1]
                               ELSE [m |-> m, e |-> e]

\* a + b in float arithmetic.  The smaller operand is aligned to the larger
\* one with 6 extra bits; what falls below them is kept in the sticky bit
FloatAdd(a, b) ==
  IF a.m = 0 THEN b
  ELSE IF b.m = 0 THEN a
  ELSE LET hi == IF a.e <= b.e THEN a ELSE b
           lo == IF a.e <= b.e THEN b ELSE a
           d == lo.e - hi.e
       IN IF d <= 6
            THEN FloatRound(hi.m * Pow2(d) + lo.m, lo.e, 0, FALSE)
            ELSE IF d - 6 >= 24
                   THEN FloatRound(hi.m * 64, hi.e + 6, 0, TRUE)
                   ELSE FloatRound(hi.m * 64 + lo.m \div Pow2(d - 6),
                                   hi.e + 6, 0, lo.m % Pow2(d - 6) # 0)

\* a / 2.0f
FloatHalf(a) == IF a.m = 0 THEN a ELSE [m |-> a.m, e |-> a.e + 1]

\* a < b
FloatLess(a, b) ==
  IF b.m = 0 THEN FALSE
  ELSE IF a.m = 0 THEN TRUE
  ELSE a.e > b.e \/ (a.e = b.e /\ a.m < b.m)

\* uv_intensity < threshold, both given in tenths
BelowThreshold(uv_intensity, threshold) ==
  \E uv \in {FloatOfTenths(uv_intensity)}, th \in {FloatOfTenths(threshold)} :
    FloatLess(uv, th)

\* uv_intensity < ((lower_threshold + upper_threshold) / 2.0f)
BelowMidpoint(uv_intensity, lower_threshold, upper_threshold) ==
  \E uv \in {FloatOfTenths(uv_intensity)},
     lower \in {FloatOfTenths(lower_threshold)},
     upper \in {FloatOfTenths(upper_threshold)} :
    \E sum \in {FloatAdd(lower, upper)} :
      FloatLess(uv, FloatHalf(sum))

\* Mutant: the first call compares with the lower threshold, not the midpoint
detect_night_FirstRunLower(st, uv_intensity, lower_threshold, upper_threshold) ==
  LET result ==
        IF st.first_run
          THEN BelowThreshold(uv_intensity, lower_threshold)
          ELSE IF st.previous_result
                 THEN BelowThreshold(uv_intensity, upper_threshold)
                 ELSE BelowThreshold(uv_intensity, lower_threshold)
  IN [result  |-> result,
      statics |-> [previous_result |-> result, first_run |-> FALSE]]

\* Mutant: every call compares with the midpoint (no hysteresis)
detect_night_NoHysteresis(st, uv_intensity, lower_threshold, upper_threshold) ==
  LET result == BelowMidpoint(uv_intensity, lower_threshold, upper_threshold)
  IN [result  |-> result,
      statics |-> [previous_result |-> result, first_run |-> FALSE]]

\* Mutant: the two thresholds of the later calls are exchanged
detect_night_SwappedThresholds(st, uv_intensity, lower_threshold, upper_threshold) ==
  LET result ==
        IF st.first_run
          THEN BelowMidpoint(uv_intensity, lower_threshold, upper_threshold)
          ELSE IF st.previous_result
                 THEN BelowThreshold(uv_intensity, lower_threshold)
                 ELSE BelowThreshold(uv_intensity, upper_threshold)
  IN [result  |-> result,
      statics |-> [previous_result |-> result, first_run |-> FALSE]]

\* uv_intensity, lower_threshold and upper_threshold are given in tenths
\* and compared as the floats the code holds
detect_night(st, uv_intensity, lower_threshold, upper_threshold) ==
  LET result ==
        IF st.first_run
          THEN BelowMidpoint(uv_intensity, lower_threshold, upper_threshold)
          ELSE IF st.previous_result
                 THEN BelowThreshold(uv_intensity, upper_threshold)
                 ELSE BelowThreshold(uv_intensity, lower_threshold)
  IN [result  |-> result,
      statics |-> [previous_result |-> result, first_run |-> FALSE]]

----------------------------------------------------------------------------
(* WeatherStation::reset_sub_entities_ *)

\* The sensors driven to NAN, in program order
ResetOrder ==
  <<"temperature", "humidity", "pressure", "wind_speed", "wind_gust",
    "wind_direction_degrees", "accumulated_precipitation", "uv_intensity",
    "light", "uv_index", "precipitation_intensity">>

RECURSIVE PublishEach(_, _, _, _)
PublishEach(sensors, chs, i, v) ==
  IF i > Len(chs) THEN <<>>
  ELSE Publish(sensors, chs[i], v) \o PublishEach(sensors, chs, i + 1, v)

\* build "misol_weather": this->previous_precipitation_.reset()
reset_sub_entities_(w) ==
  [pubs |-> PublishEach(w.sensors, ResetOrder, 1, NAN),
   previous_precipitation_ |->
     IF "precipitation_intensity" \in w.sensors
       THEN NullOpt ELSE w.previous_precipitation_]

\* build "misol": this->previos_precipitation_ = 0xFFFF
reset_sub_entities_misol(w) ==
  [pubs |-> PublishEach(w.sensors, ResetOrder, 1, NAN),
   previous_precipitation_ |->
     IF "precipitation_intensity" \in w.sensors
       THEN 65535 ELSE w.previous_precipitation_]

----------------------------------------------------------------------------
(* WeatherStation::check_packet_ *)

\* Mutant: the primary checksum loop stops one byte early (i < 15)
check_packet_ShortSum(data, len) ==
  IF len < 17 THEN WRONG_PACKET
  ELSE IF At(data, 0) # SyncByte THEN WRONG_PACKET
  ELSE IF Checksum(data, 0, 15) # At(data, 16) THEN WRONG_PACKET
  ELSE IF len > 17
    THEN IF len < 21 THEN BASIC_PACKET
         ELSE IF Checksum(data, 17, 20) # At(data, 20) THEN BASIC_PACKET
         ELSE BASIC_WITH_PRESSURE
    ELSE BASIC_PACKET

\* Mutant: the secondary checksum loop runs one byte too far (i <= 20)
check_packet_LongExtSum(data, len) ==
  IF len < 17 THEN WRONG_PACKET
  ELSE IF At(data, 0) # SyncByte THEN WRONG_PACKET
  ELSE IF Checksum(data, 0, 16) # At(data, 16) THEN WRONG_PACKET
  ELSE IF len > 17
    THEN IF len < 21 THEN BASIC_PACKET
         ELSE IF Checksum(data, 17, 21) # At(data, 20) THEN BASIC_PACKET
         ELSE BASIC_WITH_PRESSURE
    ELSE BASIC_PACKET

\* Mutant: a failed secondary checksum rejects the whole frame
check_packet_RejectBadExtension(data, len) ==
  IF len < 17 THEN WRONG_PACKET
  ELSE IF At(data, 0) # SyncByte THEN WRONG_PACKET
  ELSE IF Checksum(data, 0, 16) # At(data, 16) THEN WRONG_PACKET
  ELSE IF len > 17
    THEN IF len < 21 THEN BASIC_PACKET
         ELSE IF Checksum(data, 17, 20) # At(data, 20) THEN WRONG_PACKET
         ELSE BASIC_WITH_PRESSURE
    ELSE BASIC_PACKET

\* Mutant: the primary checksum is not compared
check_packet_NoChecksum(data, len) ==
  IF len < 17 THEN WRONG_PACKET
  ELSE IF At(data, 0) # SyncByte THEN WRONG_PACKET
  ELSE IF len > 17
    THEN IF len < 21 THEN BASIC_PACKET
         ELSE IF Checksum(data, 17, 20) # At(data, 20) THEN BASIC_PACKET
         ELSE BASIC_WITH_PRESSURE
    ELSE BASIC_PACKET

check_packet_(data, len) ==
  IF len < 17 THEN WRONG_PACKET
  ELSE IF At(data, 0) # SyncByte THEN WRONG_PACKET
  ELSE IF Checksum(data, 0, 16) # At(data, 16) THEN WRONG_PACKET
  ELSE IF len > 17
    THEN IF len < 21 THEN BASIC_PACKET
         ELSE IF Checksum(data, 17, 20) # At(data, 20) THEN BASIC_PACKET
         ELSE BASIC_WITH_PRESSURE
    ELSE BASIC_PACKET

----------------------------------------------------------------------------
(* WeatherStation::process_packet_, build "misol_weather".                 *)
(* prev / prev_ts are previous_precipitation_ and its timestamp on entry.  *)

\* interval > this->precipitation_intensity_interval_
\* (std::chrono::seconds compared with std::chrono::milliseconds)
IntervalElapsed(interval_s, min_interval_ms) ==
  interval_s * 1000 > min_interval_ms

\* ((float) (accumulated - previous)) * 0.3f / (interval.count() / 3600.0f)
PrecipitationIntensity(accumulated, previous, interval_s) ==
  Rat((accumulated - previous) * 3 * 3600, 10 * interval_s)

\* Lines 178-195: the precipitation estimator
EstimatePrecipitation(accumulated_precipitation, prev, prev_ts, min_interval, now_) ==
  LET has_value == prev # NullOpt
      interval == DurationCastSeconds(now_ - prev_ts)
      elapsed == has_value /\ IntervalElapsed(interval, min_interval)
  IN [precipitation_intensity_updated |-> elapsed,
      precipitation_intensity |->
        IF elapsed
          THEN PrecipitationIntensity(accumulated_precipitation, prev, interval)
          ELSE NAN,
      previous_precipitation_ |->
        IF elapsed \/ ~has_value THEN accumulated_precipitation ELSE prev,
      previous_precipitation_timestamp_ |->
        IF elapsed \/ ~has_value THEN now_ ELSE prev_ts]

\* Mutant: the wind-speed sentinel test looks at the low byte only
process_packet_WindSpeedLowByte(w, st, prev, data, len, has_pressure, now_) ==
  LET S == w.sensors
      pressure ==
        IF has_pressure
          THEN Rat(Shl(At(data, 17), 16) + Shl(At(data, 18), 8) + At(data, 19), 100)
          ELSE NAN
      wind_direction == At(data, 2) + Shl(BitAnd(At(data, 3), 128), 1)
      low_battery == BitAnd(At(data, 3), 8) # 0
      tmp_val == At(data, 4) + Shl(BitAnd(At(data, 3), 7), 8)
      temperature == IF tmp_val # 2047 THEN Rat(tmp_val - 400, 10) ELSE NAN
      humidity == At(data, 5)
      wind_speed_val == At(data, 6) + Shl(BitAnd(At(data, 3), 16), 4)
      wind_speed ==
        IF wind_speed_val % 256 # 255 THEN Rat(wind_speed_val * 112, 800) ELSE NAN
      wind_gust == At(data, 7)
      accumulated_precipitation == At(data, 9) + Shl(At(data, 8), 8)
      est == EstimatePrecipitation(accumulated_precipitation, prev,
                                   w.previous_precipitation_timestamp_,
                                   w.precipitation_intensity_interval_, now_)
      uv_intensity_val == At(data, 11) + Shl(At(data, 10), 8)
      uv_intensity ==
        IF uv_intensity_val # 65535 THEN Rat(uv_intensity_val, 10) ELSE NAN
      call_night == "night" \in S /\ ~IsNan(uv_intensity)
      night == detect_night(st, uv_intensity_val, w.lower_night_threshold_,
                            w.upper_night_threshold_)
      light_val == At(data, 14) + Shl(At(data, 13), 8) + Shl(At(data, 12), 16)
      light == IF light_val # 16777215 THEN Rat(light_val, 10) ELSE NAN
  IN [pubs |->
        Publish(S, "pressure", pressure)
        \o Publish(S, "wind_direction_degrees",
                   IF wind_direction # 511 THEN Rat(wind_direction, 1) ELSE NAN)
        \o Publish(S, "battery_level", Bool(low_battery))
        \o Publish(S, "temperature", temperature)
        \o Publish(S, "humidity", Rat(humidity, 1))
        \o Publish(S, "wind_speed", wind_speed)
        \o Publish(S, "wind_gust",
                   IF wind_gust # 255 THEN Rat(wind_gust * 112, 100) ELSE NAN)
        \o Publish(S, "accumulated_precipitation",
                   Rat(accumulated_precipitation * 3, 10))
        \o (IF est.precipitation_intensity_updated
              THEN Publish(S, "precipitation_intensity", est.precipitation_intensity)
              ELSE <<>>)
        \o Publish(S, "uv_intensity", uv_intensity)
        \o Publish(S, "uv_index",
                   IF ~IsNan(uv_intensity)
                     THEN Rat((uv_intensity_val \div 400) % 256, 1)
                     ELSE NAN)
        \o (IF call_night THEN Publish(S, "night", Bool(night.result)) ELSE <<>>)
        \o Publish(S, "light", light),
      previous_precipitation_ |-> est.previous_precipitation_,
      previous_precipitation_timestamp_ |-> est.previous_precipitation_timestamp_,
      crashed |-> FALSE,
      statics |-> IF call_night THEN night.statics ELSE st]

\* Mutant: detect_night is called whether or not the UV reading is valid
process_packet_NightOnSentinel(w, st, prev, data, len, has_pressure, now_) ==
  LET S == w.sensors
      pressure ==
        IF has_pressure
          THEN Rat(Shl(At(data, 17), 16) + Shl(At(data, 18), 8) + At(data, 19), 100)
          ELSE NAN
      wind_direction == At(data, 2) + Shl(BitAnd(At(data, 3), 128), 1)
      low_battery == BitAnd(At(data, 3), 8) # 0
      tmp_val == At(data, 4) + Shl(BitAnd(At(data, 3), 7), 8)
      temperature == IF tmp_val # 2047 THEN Rat(tmp_val - 400, 10) ELSE NAN
      humidity == At(data, 5)
      wind_speed_val == At(data, 6) + Shl(BitAnd(At(data, 3), 16), 4)
      wind_speed ==
        IF wind_speed_val # 511 THEN Rat(wind_speed_val * 112, 800) ELSE NAN
      wind_gust == At(data, 7)
      accumulated_precipitation == At(data, 9) + Shl(At(data, 8), 8)
      est == EstimatePrecipitation(accumulated_precipitation, prev,
                                   w.previous_precipitation_timestamp_,
                                   w.precipitation_intensity_interval_, now_)
      uv_intensity_val == At(data, 11) + Shl(At(data, 10), 8)
      uv_intensity ==
        IF uv_intensity_val # 65535 THEN Rat(uv_intensity_val, 10) ELSE NAN
      call_night == "night" \in S
      night == detect_night(st, uv_intensity_val, w.lower_night_threshold_,
                            w.upper_night_threshold_)
      light_val == At(data, 14) + Shl(At(data, 13), 8) + Shl(At(data, 12), 16)
      light == IF light_val # 16777215 THEN Rat(light_val, 10) ELSE NAN
  IN [pubs |->
        Publish(S, "pressure", pressure)
        \o Publish(S, "wind_direction_degrees",
                   IF wind_direction # 511 THEN Rat(wind_direction, 1) ELSE NAN)
        \o Publish(S, "battery_level", Bool(low_battery))
        \o Publish(S, "temperature", temperature)
        \o Publish(S, "humidity", Rat(humidity, 1))
        \o Publish(S, "wind_speed", wind_speed)
        \o Publish(S, "wind_gust",
                   IF wind_gust # 255 THEN Rat(wind_gust * 112, 100) ELSE NAN)
        \o Publish(S, "accumulated_precipitation",
                   Rat(accumulated_precipitation * 3, 10))
        \o (IF est.precipitation_intensity_updated
              THEN Publish(S, "precipitation_intensity", est.precipitation_intensity)
              ELSE <<>>)
        \o Publish(S, "uv_intensity", uv_intensity)
        \o Publish(S, "uv_index",
                   IF ~IsNan(uv_intensity)
                     THEN Rat((uv_intensity_val \div 400) % 256, 1)
                     ELSE NAN)
        \o (IF call_night THEN Publish(S, "night", Bool(night.result)) ELSE <<>>)
        \o Publish(S, "light", light),
      previous_precipitation_ |-> est.previous_precipitation_,
      previous_precipitation_timestamp_ |-> est.previous_precipitation_timestamp_,
      crashed |-> FALSE,
      statics |-> IF call_night THEN night.statics ELSE st]

process_packet_(w, st, prev, data, len, has_pressure, now_) ==
  LET S == w.sensors
      pressure ==
        IF has_pressure
          THEN Rat(Shl(At(data, 17), 16) + Shl(At(data, 18), 8) + At(data, 19), 100)
          ELSE NAN
      wind_direction == At(data, 2) + Shl(BitAnd(At(data, 3), 128), 1)
      low_battery == BitAnd(At(data, 3), 8) # 0
      tmp_val == At(data, 4) + Shl(BitAnd(At(data, 3), 7), 8)
      temperature == IF tmp_val # 2047 THEN Rat(tmp_val - 400, 10) ELSE NAN
      humidity == At(data, 5)
      wind_speed_val == At(data, 6) + Shl(BitAnd(At(data, 3), 16), 4)
      wind_speed ==
        IF wind_speed_val # 511 THEN Rat(wind_speed_val * 112, 800) ELSE NAN
      wind_gust == At(data, 7)
      accumulated_precipitation == At(data, 9) + Shl(At(data, 8), 8)
      est == EstimatePrecipitation(accumulated_precipitation, prev,
                                   w.previous_precipitation_timestamp_,
                                   w.precipitation_intensity_interval_, now_)
      uv_intensity_val == At(data, 11) + Shl(At(data, 10), 8)
      uv_intensity ==
        IF uv_intensity_val # 65535 THEN Rat(uv_intensity_val, 10) ELSE NAN
      call_night == "night" \in S /\ ~IsNan(uv_intensity)
      night == detect_night(st, uv_intensity_val, w.lower_night_threshold_,
                            w.upper_night_threshold_)
      light_val == At(data, 14) + Shl(At(data, 13), 8) + Shl(At(data, 12), 16)
      light == IF light_val # 16777215 THEN Rat(light_val, 10) ELSE NAN
  IN [pubs |->
        Publish(S, "pressure", pressure)
        \o Publish(S, "wind_direction_degrees",
                   IF wind_direction # 511 THEN Rat(wind_direction, 1) ELSE NAN)
        \o Publish(S, "battery_level", Bool(low_battery))
        \o Publish(S, "temperature", temperature)
        \o Publish(S, "humidity", Rat(humidity, 1))
        \o Publish(S, "wind_speed", wind_speed)
        \o Publish(S, "wind_gust",
                   IF wind_gust # 255 THEN Rat(wind_gust * 112, 100) ELSE NAN)
        \o Publish(S, "accumulated_precipitation",
                   Rat(accumulated_precipitation * 3, 10))
        \o (IF est.precipitation_intensity_updated
              THEN Publish(S, "precipitation_intensity", est.precipitation_intensity)
              ELSE <<>>)
        \o Publish(S, "uv_intensity", uv_intensity)
        \o Publish(S, "uv_index",
                   IF ~IsNan(uv_intensity)
                     THEN Rat((uv_intensity_val \div 400) % 256, 1)
                     ELSE NAN)
        \o (IF call_night THEN Publish(S, "night", Bool(night.result)) ELSE <<>>)
        \o Publish(S, "light", light),
      previous_precipitation_ |-> est.previous_precipitation_,
      previous_precipitation_timestamp_ |-> est.previous_precipitation_timestamp_,
      crashed |-> FALSE,
      statics |-> IF call_night THEN night.statics ELSE st]

----------------------------------------------------------------------------
(* WeatherStation::process_packet_, build "misol".                         *)
(* prev / prev_ts are previos_precipitation_ and its timestamp on entry;   *)
(* now2 is the value of the second steady_clock::now() (line 283).         *)

\* interval > PRECIPITATION_INTENSITY_INTERVAL
IntervalElapsedMisol(interval_s) ==
  interval_s * 1000 > PRECIPITATION_INTENSITY_INTERVAL

\* (accumulated - this->previos_precipitation_) * 0.3 / (interval.count() / 3600.0)
PrecipitationIntensityMisol(accumulated, previos, interval_s) ==
  Rat((accumulated - previos) * 3 * 3600, 10 * interval_s)

\* Lines 268-288: the precipitation estimator
EstimatePrecipitationMisol(accumulated_precipitation, prev, prev_ts, now_, now2) ==
  LET valid == accumulated_precipitation # 65535
      has_previos == prev # 65535
      interval == DurationCastSeconds(now_ - prev_ts)
      elapsed == valid /\ has_previos /\ IntervalElapsedMisol(interval)
      previos_after ==
        IF ~valid THEN 65535
        ELSE IF elapsed \/ ~has_previos THEN accumulated_precipitation
        ELSE prev
  IN [precipitation_intensity_updated |-> elapsed \/ ~valid,
      \* line 278 runs after the assignment of line 276
      precipitation_intensity |->
        IF elapsed
          THEN PrecipitationIntensityMisol(accumulated_precipitation,
                                           previos_after, interval)
          ELSE NAN,
      previous_precipitation_ |-> previos_after,
      previous_precipitation_timestamp_ |->
        IF ~valid THEN prev_ts
        ELSE IF elapsed THEN now_
        ELSE IF ~has_previos THEN now2
        ELSE prev_ts]

process_packet_misol(w, st, prev, data, len, has_pressure, now_, now2) ==
  LET S == w.sensors
      pressure == Shl(At(data, 17), 16) + Shl(At(data, 18), 8) + At(data, 19)
      wind_direction == At(data, 2) + Shl(BitAnd(At(data, 3), 128), 1)
      low_battery == BitAnd(At(data, 3), 8) # 0
      temperature == At(data, 4) + Shl(BitAnd(At(data, 3), 7), 8)
      humidity == At(data, 5)
      wind_speed == At(data, 6) + Shl(BitAnd(At(data, 3), 16), 4)
      wind_gust == At(data, 7)
      accumulated_precipitation == At(data, 9) + Shl(At(data, 8), 8)
      est == EstimatePrecipitationMisol(accumulated_precipitation, prev,
                                        w.previous_precipitation_timestamp_,
                                        now_, now2)
      uv_intensity == At(data, 11) + Shl(At(data, 10), 8)
      light == At(data, 14) + Shl(At(data, 13), 8) + Shl(At(data, 12), 16)
      \* lines 199-214
      before_battery ==
        Publish(S, "pressure", IF has_pressure THEN Rat(pressure, 100) ELSE NAN)
        \o Publish(S, "wind_direction_degrees",
                   IF wind_direction # 511 THEN Rat(wind_direction, 1) ELSE NAN)
      \* line 216 (USE_BINARY_SENSOR defined)
      battery == PublishUnchecked(S, "battery_level", Bool(low_battery))
  IN IF battery.crashed
       \* the process ends at line 216: nothing after it runs
       THEN [pubs |-> before_battery,
             previous_precipitation_ |-> prev,
             previous_precipitation_timestamp_ |-> w.previous_precipitation_timestamp_,
             crashed |-> TRUE,
             statics |-> st]
       ELSE
     [pubs |->
        before_battery
        \o battery.pubs
        \o Publish(S, "temperature",
                   IF temperature # 2047 THEN Rat(temperature - 400, 10) ELSE NAN)
        \o Publish(S, "humidity",
                   IF humidity # 255 THEN Rat(humidity, 1) ELSE NAN)
        \o Publish(S, "wind_speed",
                   IF wind_speed # 511 THEN Rat(wind_speed * 112, 800) ELSE NAN)
        \o Publish(S, "wind_gust",
                   IF wind_gust # 255 THEN Rat(wind_gust * 112, 100) ELSE NAN)
        \o Publish(S, "accumulated_precipitation",
                   Rat(accumulated_precipitation * 3, 10))
        \o (IF est.precipitation_intensity_updated
              THEN Publish(S, "precipitation_intensity", est.precipitation_intensity)
              ELSE <<>>)
        \o Publish(S, "uv_intensity",
                   IF uv_intensity # 65535 THEN Rat(uv_intensity, 10) ELSE NAN)
        \o Publish(S, "uv_index",
                   IF uv_intensity # 65535
                     THEN Rat((uv_intensity \div 400) % 256, 1)
                     ELSE NAN)
        \o Publish(S, "light",
                   IF light # 16777215 THEN Rat(light, 10) ELSE NAN),
      previous_precipitation_ |-> est.previous_precipitation_,
      previous_precipitation_timestamp_ |-> est.previous_precipitation_timestamp_,
      crashed |-> FALSE,
      statics |-> st]

----------------------------------------------------------------------------
(* WeatherStation::loop *)

\* Mutant: the comparison with the timeout is not strict
TimeoutExpired_NotStrict(first_data_received, last_packet_time, now_) ==
  first_data_received /\ (now_ - last_packet_time >= COMMUNICATION_TIMOUT)

\* this->first_data_received_ && (now - this->last_packet_time_ > COMMUNICATION_TIMOUT)
TimeoutExpired(first_data_received, last_packet_time, now_) ==
  first_data_received /\ (now_ - last_packet_time > COMMUNICATION_TIMOUT)

\* Mutant: only a buffer that check_packet_ accepts counts as traffic
MarkReceived_ValidOnly(size, packet_type, first_data_received, last_packet_time, now_) ==
  [first_data_received_ |->
     IF size > 0 /\ packet_type # WRONG_PACKET THEN TRUE ELSE first_data_received,
   last_packet_time_ |->
     IF size > 0 /\ packet_type # WRONG_PACKET THEN now_ ELSE last_packet_time]

\* Lines 48-49: the bookkeeping of a call on which bytes were available.  It
\* precedes check_packet_ and does not read packet_type.
MarkReceived(size, packet_type, first_data_received, last_packet_time, now_) ==
  [first_data_received_ |-> IF size > 0 THEN TRUE ELSE first_data_received,
   last_packet_time_    |-> IF size > 0 THEN now_ ELSE last_packet_time]

\* Mutant: the watchdog compares after the bookkeeping of the received bytes
LoopResult_WatchdogAfterIngestion(b, w, st, rx, now_, now2) ==
  LET size == Len(rx)
      Finish(expired, reset, packet_type, p) ==
        LET prev1 == IF expired THEN reset.previous_precipitation_
                                ELSE w.previous_precipitation_
            first1 == IF expired THEN FALSE ELSE w.first_data_received_
            pubs1 == IF expired THEN reset.pubs ELSE <<>>
            process == size > 0 /\ packet_type # WRONG_PACKET
            mark == MarkReceived(size, packet_type, first1, w.last_packet_time_, now_)
        IN [ws |->
              [w EXCEPT
                 !.first_data_received_ = mark.first_data_received_,
                 !.last_packet_time_ = mark.last_packet_time_,
                 !.previous_precipitation_ =
                    IF process THEN p.previous_precipitation_ ELSE prev1,
                 !.previous_precipitation_timestamp_ =
                    IF process THEN p.previous_precipitation_timestamp_ ELSE @,
                 !.state = Deliver(@, IF process THEN pubs1 \o p.pubs ELSE pubs1, 1),
                 !.published = IF process THEN pubs1 \o p.pubs ELSE pubs1],
            statics |-> IF process THEN p.statics ELSE st,
            tick |-> [timeout     |-> expired,
                      rx          |-> rx,
                      received    |-> IF size > 0
                                        THEN IF first1 THEN "Packet"
                                                       ELSE "First packet"
                                        ELSE "",
                      packet_type |-> packet_type,
                      crashed     |-> process /\ p.crashed]]
      Process(expired, reset, packet_type) ==
        Finish(expired, reset, packet_type,
               IF b = "misol_weather"
                 THEN process_packet_(
                        w, st,
                        IF expired THEN reset.previous_precipitation_
                                   ELSE w.previous_precipitation_,
                        rx, size, packet_type = BASIC_WITH_PRESSURE, now_)
                 ELSE process_packet_misol(
                        w, st,
                        IF expired THEN reset.previous_precipitation_
                                   ELSE w.previous_precipitation_,
                        rx, size, packet_type = BASIC_WITH_PRESSURE, now_, now2))
  IN Process(TimeoutExpired(w.first_data_received_,
                            IF size > 0 THEN now_ ELSE w.last_packet_time_, now_),
             IF b = "misol_weather" THEN reset_sub_entities_(w)
                                    ELSE reset_sub_entities_misol(w),
             IF size > 0 THEN check_packet_(rx, size) ELSE "")

\* Mutant: the watchdog does not clear first_data_received_
LoopResult_FlagNotCleared(b, w, st, rx, now_, now2) ==
  LET size == Len(rx)
      Finish(expired, reset, packet_type, p) ==
        LET prev1 == IF expired THEN reset.previous_precipitation_
                                ELSE w.previous_precipitation_
            first1 == w.first_data_received_
            pubs1 == IF expired THEN reset.pubs ELSE <<>>
            process == size > 0 /\ packet_type # WRONG_PACKET
            mark == MarkReceived(size, packet_type, first1, w.last_packet_time_, now_)
        IN [ws |->
              [w EXCEPT
                 !.first_data_received_ = mark.first_data_received_,
                 !.last_packet_time_ = mark.last_packet_time_,
                 !.previous_precipitation_ =
                    IF process THEN p.previous_precipitation_ ELSE prev1,
                 !.previous_precipitation_timestamp_ =
                    IF process THEN p.previous_precipitation_timestamp_ ELSE @,
                 !.state = Deliver(@, IF process THEN pubs1 \o p.pubs ELSE pubs1, 1),
                 !.published = IF process THEN pubs1 \o p.pubs ELSE pubs1],
            statics |-> IF process THEN p.statics ELSE st,
            tick |-> [timeout     |-> expired,
                      rx          |-> rx,
                      received    |-> IF size > 0
                                        THEN IF first1 THEN "Packet"
                                                       ELSE "First packet"
                                        ELSE "",
                      packet_type |-> packet_type,
                      crashed     |-> process /\ p.crashed]]
      Process(expired, reset, packet_type) ==
        Finish(expired, reset, packet_type,
               IF b = "misol_weather"
                 THEN process_packet_(
                        w, st,
                        IF expired THEN reset.previous_precipitation_
                                   ELSE w.previous_precipitation_,
                        rx, size, packet_type = BASIC_WITH_PRESSURE, now_)
                 ELSE process_packet_misol(
                        w, st,
                        IF expired THEN reset.previous_precipitation_
                                   ELSE w.previous_precipitation_,
                        rx, size, packet_type = BASIC_WITH_PRESSURE, now_, now2))
  IN Process(TimeoutExpired(w.first_data_received_, w.last_packet_time_, now_),
             IF b = "misol_weather" THEN reset_sub_entities_(w)
                                    ELSE reset_sub_entities_misol(w),
             IF size > 0 THEN check_packet_(rx, size) ELSE "")

\* Mutant: the watchdog test is made only on a call that has bytes to read
LoopResult_WatchdogNeedsBytes(b, w, st, rx, now_, now2) ==
  LET size == Len(rx)
      Finish(expired, reset, packet_type, p) ==
        LET prev1 == IF expired THEN reset.previous_precipitation_
                                ELSE w.previous_precipitation_
            first1 == IF expired THEN FALSE ELSE w.first_data_received_
            pubs1 == IF expired THEN reset.pubs ELSE <<>>
            process == size > 0 /\ packet_type # WRONG_PACKET
            mark == MarkReceived(size, packet_type, first1, w.last_packet_time_, now_)
        IN [ws |->
              [w EXCEPT
                 !.first_data_received_ = mark.first_data_received_,
                 !.last_packet_time_ = mark.last_packet_time_,
                 !.previous_precipitation_ =
                    IF process THEN p.previous_precipitation_ ELSE prev1,
                 !.previous_precipitation_timestamp_ =
                    IF process THEN p.previous_precipitation_timestamp_ ELSE @,
                 !.state = Deliver(@, IF process THEN pubs1 \o p.pubs ELSE pubs1, 1),
                 !.published = IF process THEN pubs1 \o p.pubs ELSE pubs1],
            statics |-> IF process THEN p.statics ELSE st,
            tick |-> [timeout     |-> expired,
                      rx          |-> rx,
                      received    |-> IF size > 0
                                        THEN IF first1 THEN "Packet"
                                                       ELSE "First packet"
                                        ELSE "",
                      packet_type |-> packet_type,
                      crashed     |-> process /\ p.crashed]]
      Process(expired, reset, packet_type) ==
        Finish(expired, reset, packet_type,
               IF b = "misol_weather"
                 THEN process_packet_(
                        w, st,
                        IF expired THEN reset.previous_precipitation_
                                   ELSE w.previous_precipitation_,
                        rx, size, packet_type = BASIC_WITH_PRESSURE, now_)
                 ELSE process_packet_misol(
                        w, st,
                        IF expired THEN reset.previous_precipitation_
                                   ELSE w.previous_precipitation_,
                        rx, size, packet_type = BASIC_WITH_PRESSURE, now_, now2))
  IN Process(size > 0 /\ TimeoutExpired(w.first_data_received_, w.last_packet_time_, now_),
             IF b = "misol_weather" THEN reset_sub_entities_(w)
                                    ELSE reset_sub_entities_misol(w),
             IF size > 0 THEN check_packet_(rx, size) ELSE "")

\* One call of loop() at clock value now_, as a function of the state before
\* it.  rx holds the bytes that available()/read() deliver on this call
\* (<<>>: none); now2 is what a later clock read during the call returns.
LoopResult(b, w, st, rx, now_, now2) ==
  LET size == Len(rx)
      Finish(expired, reset, packet_type, p) ==
        LET prev1 == IF expired THEN reset.previous_precipitation_
                                ELSE w.previous_precipitation_
            first1 == IF expired THEN FALSE ELSE w.first_data_received_
            pubs1 == IF expired THEN reset.pubs ELSE <<>>
            process == size > 0 /\ packet_type # WRONG_PACKET
            mark == MarkReceived(size, packet_type, first1, w.last_packet_time_, now_)
        IN [ws |->
              [w EXCEPT
                 !.first_data_received_ = mark.first_data_received_,
                 !.last_packet_time_ = mark.last_packet_time_,
                 !.previous_precipitation_ =
                    IF process THEN p.previous_precipitation_ ELSE prev1,
                 !.previous_precipitation_timestamp_ =
                    IF process THEN p.previous_precipitation_timestamp_ ELSE @,
                 !.state = Deliver(@, IF process THEN pubs1 \o p.pubs ELSE pubs1, 1),
                 !.published = IF process THEN pubs1 \o p.pubs ELSE pubs1],
            statics |-> IF process THEN p.statics ELSE st,
            tick |-> [timeout     |-> expired,
                      rx          |-> rx,
                      received    |-> IF size > 0
                                        THEN IF first1 THEN "Packet"
                                                       ELSE "First packet"
                                        ELSE "",
                      packet_type |-> packet_type,
                      crashed     |-> process /\ p.crashed]]
      Process(expired, reset, packet_type) ==
        Finish(expired, reset, packet_type,
               IF b = "misol_weather"
                 THEN process_packet_(
                        w, st,
                        IF expired THEN reset.previous_precipitation_
                                   ELSE w.previous_precipitation_,
                        rx, size, packet_type = BASIC_WITH_PRESSURE, now_)
                 ELSE process_packet_misol(
                        w, st,
                        IF expired THEN reset.previous_precipitation_
                                   ELSE w.previous_precipitation_,
                        rx, size, packet_type = BASIC_WITH_PRESSURE, now_, now2))
  IN Process(TimeoutExpired(w.first_data_received_, w.last_packet_time_, now_),
             IF b = "misol_weather" THEN reset_sub_entities_(w)
                                    ELSE reset_sub_entities_misol(w),
             IF size > 0 THEN check_packet_(rx, size) ELSE "")

----------------------------------------------------------------------------
(* Bounds and inputs *)

MaxTime == 245000
MaxClockLag == 1

\* Time between two calls of loop()
TickDeltas == {60000, 60500, 120001}

\* A 17-byte frame with a correct primary checksum
Frame(b2, b3, b4, b5, acc, uv) ==
  LET body == <<SyncByte, 90, b2, b3, b4, b5, 16, 3,
                acc \div 256, acc % 256, uv \div 256, uv % 256,
                1, 35, 69, 7>>
  IN Append(body, Checksum(body, 0, 16))

\* Bytes 17..20 of the pressure extension, with a correct secondary checksum
PressureBlock == <<1, 138, 92, (1 + 138 + 92) % 256>>

Corrupt(data, i) == [data EXCEPT ![i + 1] = (@ + 1) % 256]

FrameA == Frame(90, 2, 158, 55, 100, 60)
FrameB == Frame(180, 10, 158, 60, 110, 50)
FrameC == Frame(180, 2, 100, 60, 50, 48)
FrameSentinel == Frame(255, 135, 255, 255, 65535, 65535)
FrameShortExt == FrameA \o SubSeq(PressureBlock, 1, 2)
FramePressure == FrameB \o PressureBlock
FramePressureBad == Corrupt(FramePressure, 20)
FrameLong == FrameA \o PressureBlock \o <<119>>
FrameTruncated == SubSeq(FrameA, 1, 16)
FrameBadSync == Corrupt(Corrupt(FrameA, 0), 16)
FrameBadSum == Corrupt(FrameA, 16)

ValidFrames ==
  {FrameA, FrameB, FrameC, FrameSentinel, FrameShortExt, FramePressure,
   FramePressureBad, FrameLong}
InvalidFrames == {FrameTruncated, FrameBadSync, FrameBadSum}

\* What available()/read() can deliver on one call of loop(); <<>> is "no bytes"
RxInputs == {<<>>} \cup ValidFrames \cup InvalidFrames

AllSensors == Channels
NoRateSensors == Channels \ {"precipitation_intensity"}
MisolSensors == NumericChannels \cup {"battery_level"}
MisolNoBatterySensors == NumericChannels

\* The argument of set_precipitation_intensity_interval in the configuration
IntervalMinutes == 1

Configurations ==
  [build : {"misol_weather"}, sensors : {AllSensors, NoRateSensors}]
  \cup
  [build : {"misol"}, sensors : {MisolSensors, MisolNoBatterySensors}]

----------------------------------------------------------------------------
(* The state machine *)

Construct(cfg) ==
  [sensors                              |-> cfg.sensors,
   first_data_received_                 |-> FALSE,
   last_packet_time_                    |-> 0,
   precipitation_intensity_interval_    |-> IntervalMinutes * 60000,
   previous_precipitation_timestamp_    |-> 0,
   previous_precipitation_              |-> NullOpt,
   upper_night_threshold_               |-> DefaultUpperNightThreshold,
   lower_night_threshold_               |-> DefaultLowerNightThreshold,
   state                                |-> [c \in Channels |-> NAN],
   published                            |-> <<>>]

\* Build "misol": the class declaration of that build is not among the
\* sources; its baseline previos_precipitation_ starts as "no baseline",
\* which that build encodes as 0xFFFF
ConstructMisol(cfg) ==
  [Construct(cfg) EXCEPT !.previous_precipitation_ = 65535]

Init ==
  \E cfg \in Configurations :
    /\ build = cfg.build
    /\ now = 0
    /\ ws = IF cfg.build = "misol_weather" THEN Construct(cfg)
                                           ELSE ConstructMisol(cfg)
    /\ statics = [previous_result |-> FALSE, first_run |-> TRUE]
    /\ tick = [timeout |-> FALSE, rx |-> <<>>, received |-> "", packet_type |-> "",
            crashed |-> FALSE]
    /\ peer = NoStation
    /\ heard = FALSE

\* The lags a second clock read of the same call can show: only build
\* "misol" reads the clock twice
ClockLags == IF build = "misol" THEN 0..MaxClockLag ELSE {0}

loop(dt, rx, lag) ==
  /\ ~tick.crashed
  /\ now + dt <= MaxTime
  /\ now' = now + dt
  /\ \E r \in {LoopResult(build, ws, statics, rx, now + dt, now + dt + lag)} :
       /\ ws' = r.ws
       /\ statics' = r.statics
       /\ tick' = r.tick
       /\ heard' = IF rx # <<>> THEN TRUE
                   ELSE IF r.tick.timeout THEN FALSE
                   ELSE heard
  /\ UNCHANGED <<build, peer>>

Next ==
  \E dt \in TickDeltas, rx \in RxInputs, lag \in ClockLags :
    loop(dt, rx, lag)

Spec == Init /\ [][Next]_vars

----------------------------------------------------------------------------
(* The Night Detector within one session: a single station with the night  *)
(* sensor, called at a pace that never lets the watchdog fire, on frames    *)
(* that differ in their UV field only.                                      *)

\* Time between two calls of loop()
NightDeltas == {30000, 60000}

\* Bytes 10-11 of the frames, in tenths; 65535 is the "no reading" value
UvReadings == {7, 40, 48, 50, 56, 60, 65535}

\* Arguments of set_lower_night_threshold / set_upper_night_threshold, in
\* tenths.  The float midpoint of 0.6 and 0.8 is above the float 0.7.
NightThresholds == {<<45, 55>>, <<40, 60>>, <<6, 8>>}

FrameUv(uv) == Frame(90, 2, 158, 55, 100, uv)

ConstructNight(th) ==
  [Construct([build |-> "misol_weather", sensors |-> AllSensors])
     EXCEPT !.lower_night_threshold_ = th[1],
            !.upper_night_threshold_ = th[2]]

InitNight ==
  \E th \in NightThresholds :
    /\ build = "misol_weather"
    /\ now = 0
    /\ ws = ConstructNight(th)
    /\ statics = [previous_result |-> FALSE, first_run |-> TRUE]
    /\ tick = [timeout |-> FALSE, rx |-> <<>>, received |-> "", packet_type |-> "",
            crashed |-> FALSE]
    /\ peer = NoStation
    /\ heard = FALSE

NextNight ==
  \E dt \in NightDeltas, uv \in UvReadings : loop(dt, FrameUv(uv), 0)

SpecNight == InitNight /\ [][NextNight]_vars

----------------------------------------------------------------------------
(* The documented example of the Night Detector: a fresh station with the  *)
(* default thresholds receives the four UV readings of the example in      *)
(* order, with calls in between on which an invalid buffer arrives (the    *)
(* detector is not called on those).                                       *)

ExampleReadings == <<60, 50, 48, 56>>
ExampleDeltas == {20000, 40000}

\* How many readings of the example the station has received: the UV sink
\* holds the last of them
ExamplePosition ==
  IF IsNan(ws.state["uv_intensity"]) THEN 0
  ELSE CHOOSE k \in 1..Len(ExampleReadings) :
         ws.state["uv_intensity"] = Rat(ExampleReadings[k], 10)

InitExample ==
  /\ build = "misol_weather"
  /\ now = 0
  /\ ws = Construct([build |-> "misol_weather", sensors |-> AllSensors])
  /\ statics = [previous_result |-> FALSE, first_run |-> TRUE]
  /\ tick = [timeout |-> FALSE, rx |-> <<>>, received |-> "", packet_type |-> "",
            crashed |-> FALSE]
  /\ peer = NoStation
  /\ heard = FALSE

ExampleReading ==
  /\ ExamplePosition < Len(ExampleReadings)
  /\ \E dt \in ExampleDeltas :
       loop(dt, FrameUv(ExampleReadings[ExamplePosition + 1]), 0)

ExampleInvalid ==
  \E dt \in ExampleDeltas, rx \in InvalidFrames : loop(dt, rx, 0)

NextExample == ExampleReading \/ ExampleInvalid

SpecExample == InitExample /\ [][NextExample]_vars

----------------------------------------------------------------------------
(* The field decoder on the first buffer a station receives: 17-byte       *)
(* frames whose fields are drawn one by one from a typical raw value, a    *)
(* raw value whose low byte is all ones, and the "no reading" raw value.   *)

FieldNames ==
  {"wind_direction", "temperature", "humidity", "wind_speed", "wind_gust",
   "counter", "uv", "light"}

TypicalRaw ==
  [wind_direction |-> 90, temperature |-> 670, humidity |-> 55,
   wind_speed |-> 16, wind_gust |-> 3, counter |-> 100, uv |-> 60,
   light |-> 74565]

SentinelRaw ==
  [wind_direction |-> 511, temperature |-> 2047, humidity |-> 255,
   wind_speed |-> 511, wind_gust |-> 255, counter |-> 65535, uv |-> 65535,
   light |-> 16777215]

FieldRaws ==
  [wind_direction : {90, 255, 511}, temperature : {670, 255, 2047},
   humidity : {55, 255}, wind_speed : {16, 255, 511}, wind_gust : {3, 255},
   counter : {100, 255, 65535}, uv : {60, 255, 65535},
   light : {74565, 65535, 16777215}]

\* The frames offered: at most two fields away from their typical value, or
\* every field at its "no reading" value
DecodeReadings ==
  {r \in FieldRaws :
     \/ Cardinality({f \in FieldNames : r[f] # TypicalRaw[f]}) <= 2
     \/ r = SentinelRaw}

\* The 17-byte frame that carries the raw values r, battery bit clear
FrameOf(r) ==
  LET body == <<SyncByte, 90,
                r.wind_direction % 256,
                128 * (r.wind_direction \div 256) + 16 * (r.wind_speed \div 256)
                  + (r.temperature \div 256),
                r.temperature % 256,
                r.humidity,
                r.wind_speed % 256,
                r.wind_gust,
                r.counter \div 256, r.counter % 256,
                r.uv \div 256, r.uv % 256,
                r.light \div 65536, (r.light \div 256) % 256, r.light % 256,
                7>>
  IN Append(body, Checksum(body, 0, 16))

DecodeDeltas == {60000}

DecodeConfigurations ==
  {[build |-> "misol_weather", sensors |-> AllSensors],
   [build |-> "misol", sensors |-> MisolSensors]}

InitDecode ==
  \E cfg \in DecodeConfigurations :
    /\ build = cfg.build
    /\ now = 0
    /\ ws = IF cfg.build = "misol_weather" THEN Construct(cfg)
                                           ELSE ConstructMisol(cfg)
    /\ statics = [previous_result |-> FALSE, first_run |-> TRUE]
    /\ tick = [timeout |-> FALSE, rx |-> <<>>, received |-> "", packet_type |-> "",
            crashed |-> FALSE]
    /\ peer = NoStation
    /\ heard = FALSE

NextDecode ==
  \E dt \in DecodeDeltas, r \in DecodeReadings, lag \in ClockLags :
    /\ ~ws.first_data_received_
    /\ loop(dt, FrameOf(r), lag)

SpecDecode == InitDecode /\ [][NextDecode]_vars

----------------------------------------------------------------------------
(* Two weather stations configured in the same process: two WeatherStation *)
(* objects, each with its own fields and sinks, and the one set of         *)
(* function-local statics of detect_night.  The scheduler calls loop() of   *)
(* either object; the calls modelled are those on which a frame arrives.    *)

SessionReadings == {48, 50, 60}
SessionDeltas == {60000}

InitSessions ==
  /\ build = "misol_weather"
  /\ now = 0
  /\ ws = Construct([build |-> "misol_weather", sensors |-> AllSensors])
  /\ peer = Construct([build |-> "misol_weather", sensors |-> AllSensors])
  /\ heard = FALSE
  /\ statics = [previous_result |-> FALSE, first_run |-> TRUE]
  /\ tick = [timeout |-> FALSE, rx |-> <<>>, received |-> "", packet_type |-> "",
            crashed |-> FALSE]

\* peer.loop(): the same code on the other object
PeerLoop(dt, rx, lag) ==
  /\ ~tick.crashed
  /\ now + dt <= MaxTime
  /\ now' = now + dt
  /\ \E r \in {LoopResult(build, peer, statics, rx, now + dt, now + dt + lag)} :
       /\ peer' = r.ws
       /\ statics' = r.statics
  /\ UNCHANGED <<build, ws, tick, heard>>

OwnLoop == \E dt \in SessionDeltas, uv \in SessionReadings : loop(dt, FrameUv(uv), 0)
OtherLoop == \E dt \in SessionDeltas, uv \in SessionReadings : PeerLoop(dt, FrameUv(uv), 0)

NextSessions == OwnLoop \/ OtherLoop

SpecSessions == InitSessions /\ [][NextSessions]_vars

----------------------------------------------------------------------------
(* The watchdog over several silent periods: a first call of loop() soon   *)
(* after construction, then calls within the timeout of each other or more *)
(* than the timeout apart, with no bytes, a valid frame or an invalid      *)
(* buffer.  Two timeouts fit before MaxTime (bytes at 4000, bytes again    *)
(* at 124001 after the first reset, the second reset at 244002).           *)

WatchdogBoot == {4000}
WatchdogDeltas == {60000, 120001}
WatchdogInputs == {<<>>, FrameA, FrameB, FrameBadSum}

InitWatchdog ==
  \E cfg \in DecodeConfigurations :
    /\ build = cfg.build
    /\ now = 0
    /\ ws = IF cfg.build = "misol_weather" THEN Construct(cfg)
                                           ELSE ConstructMisol(cfg)
    /\ statics = [previous_result |-> FALSE, first_run |-> TRUE]
    /\ tick = [timeout |-> FALSE, rx |-> <<>>, received |-> "", packet_type |-> "",
            crashed |-> FALSE]
    /\ peer = NoStation
    /\ heard = FALSE

FirstCall ==
  /\ now = 0
  /\ \E dt \in WatchdogBoot, rx \in WatchdogInputs : loop(dt, rx, 0)

LaterCall ==
  /\ now > 0
  /\ \E dt \in WatchdogDeltas, rx \in WatchdogInputs : loop(dt, rx, 0)

NextWatchdog == FirstCall \/ LaterCall

SpecWatchdog == InitWatchdog /\ [][NextWatchdog]_vars

----------------------------------------------------------------------------
(* The station falling silent: the main loop calls loop() for ever (weak   *)
(* fairness of the call), the clock advances on every call, and no bytes   *)
(* become available after LastByteTime.  The bounded clock leaves room for *)
(* calls more than the timeout after the last buffer:                      *)
(* LastByteTime + COMMUNICATION_TIMOUT < MaxTime - 30000.                  *)

LastByteTime == 90000
LiveDeltas == {30000, 60000, 120001}
LiveInputs == {FrameA, FrameB, FrameBadSum}

\* A call of loop() with bytes available, while the station still transmits
Listening ==
  \E dt \in LiveDeltas, rx \in LiveInputs :
    /\ now + dt <= LastByteTime
    /\ loop(dt, rx, 0)

\* A call of loop() with no bytes available
Silent ==
  \E dt \in LiveDeltas : loop(dt, <<>>, 0)

NextLive == Listening \/ Silent

SpecLive == InitWatchdog /\ [][NextLive]_vars /\ WF_vars(NextLive)

----------------------------------------------------------------------------
(* Observations used by the properties *)

\* The values published on channel ch during the last call of loop(), in order
PubsOf(pubs, ch) == SelectSeq(pubs, LAMBDA e : e[1] = ch)
ValuesOf(ch) == [i \in 1..Len(PubsOf(ws.published, ch)) |-> PubsOf(ws.published, ch)[i][2]]

\* Raw fields of the buffer read on the last call (bytes 8-9 and 10-11)
CounterOf(rx) == rx[10] + 256 * rx[9]
UvOf(rx) == rx[12] + 256 * rx[11]

\* The precipitation baseline, in the encoding of the build
NoBaseline == IF build = "misol_weather" THEN NullOpt ELSE 65535
HasBaseline == ws.previous_precipitation_ # NoBaseline
RatePublished ==
  \E i \in 1..Len(ValuesOf("precipitation_intensity")) :
    ~IsNan(ValuesOf("precipitation_intensity")[i])

\* The frame rules of the protocol, written out on the 1-based buffer
PrimarySum(rx) ==
  (rx[1] + rx[2] + rx[3] + rx[4] + rx[5] + rx[6] + rx[7] + rx[8] + rx[9]
   + rx[10] + rx[11] + rx[12] + rx[13] + rx[14] + rx[15] + rx[16]) % 256
PrimaryOk(rx) == Len(rx) >= 17 /\ rx[1] = 36 /\ PrimarySum(rx) = rx[17]
SecondarySum(rx) == (rx[18] + rx[19] + rx[20]) % 256
SecondaryOk(rx) == Len(rx) >= 21 /\ SecondarySum(rx) = rx[21]

Received == tick.rx # <<>>
Processed == Received /\ tick.packet_type # WRONG_PACKET
Configured(ch) == ch \in ws.sensors

\* The reset action ran on the last call: its warning was logged and every
\* configured sensor was first driven to NAN
ResetObserved ==
  /\ tick.timeout
  /\ \A c \in ws.sensors \cap NumericChannels :
       ValuesOf(c) # <<>> /\ IsNan(ValuesOf(c)[1])

\* The reset action did not run on the last call: no warning, no channel
\* published twice, and nothing published unless a packet was processed
NoResetObserved ==
  /\ ~tick.timeout
  /\ \A c \in Channels : Len(ValuesOf(c)) <= 1
  /\ ~Processed => ws.published = <<>>

----------------------------------------------------------------------------
(* C1: on a call of loop() at time t, the reset action runs exactly when    *)
(* first_data_received was true and t - last_packet_time > 2 minutes,      *)
(* whether or not bytes are available; it leaves first_data_received false *)
(* (seen at the end of the call when no bytes came, and by the "First      *)
(* packet" log label when bytes came).                                     *)
C1_WatchdogFiring ==
  [][LET cond == /\ ws.first_data_received_
                 /\ now' - ws.last_packet_time_ > COMMUNICATION_TIMOUT
     IN /\ cond => /\ ResetObserved'
                   /\ ~Received' => ~ws'.first_data_received_
                   /\ Received' => tick'.received = "First packet"
        /\ ~cond => NoResetObserved']_vars

\* The reset ran on a call that also received bytes
C1_Witness ==
  /\ ResetObserved
  /\ Received
  /\ tick.received = "First packet"

----------------------------------------------------------------------------
(* C2: when the communication timeout fires, every configured channel --   *)
(* the numeric channels, the precipitation-rate channel and the booleans   *)
(* night and battery-low -- is driven to "no reading": after a call on     *)
(* which the reset ran and no packet was processed, no configured channel  *)
(* holds a value.                                                          *)
C2_AllChannelsReset ==
  (tick.timeout /\ ~Processed) => \A c \in ws.sensors : IsNan(ws.state[c])

----------------------------------------------------------------------------
(* C3: a communication timeout resets the Night Detector: the first        *)
(* evaluation after the reset uses the first-call rule                     *)
(* uv < (lower + upper) / 2, whatever was computed before.  On the call    *)
(* the reset ran: a night value published by that call follows the         *)
(* first-call rule, and if none was published the detector is back in its  *)
(* first-run state.                                                        *)
C3_NightResetOnTimeout ==
  tick.timeout =>
    IF ValuesOf("night") # <<>>
      THEN ValuesOf("night")[1] =
             Bool(2 * UvOf(tick.rx)
                    < ws.lower_night_threshold_ + ws.upper_night_threshold_)
      ELSE statics.first_run

----------------------------------------------------------------------------
(* C4: a communication timeout resets the Precipitation Estimator to "no   *)
(* baseline" in every channel configuration: after the call on which the   *)
(* reset ran there is no baseline, or, when that call also processed a     *)
(* packet, only the packet's own (counter, clock reading) as a fresh       *)
(* baseline; and that call publishes no rate.                              *)
C4_PrecipitationResetOnTimeout ==
  tick.timeout =>
    /\ ~RatePublished
    /\ IF Processed /\ ~(build = "misol" /\ CounterOf(tick.rx) = 65535)
         THEN /\ ws.previous_precipitation_ = CounterOf(tick.rx)
              /\ ws.previous_precipitation_timestamp_ \in now..(now + MaxClockLag)
         ELSE ~HasBaseline

----------------------------------------------------------------------------
(* C5: on every call of loop() on which at least one byte is available,    *)
(* first_data_received becomes true and last_packet_time the call's        *)
(* timestamp, however check_packet_ classifies the buffer; so a call that  *)
(* follows a received buffer (valid or not) by no more than the timeout    *)
(* never runs the reset.                                                   *)
C5_LivenessBookkeeping ==
  [][/\ Received' => /\ ws'.first_data_received_
                     /\ ws'.last_packet_time_ = now'
     /\ (Received /\ now' - now <= COMMUNICATION_TIMOUT) => NoResetObserved']_vars

\* An invalid buffer arrived within the timeout of the previous buffer: the
\* session stays alive and nothing is reset
C5_Witness ==
  /\ tick.packet_type = WRONG_PACKET
  /\ tick.received = "Packet"
  /\ ws.first_data_received_
  /\ ws.last_packet_time_ = now
  /\ NoResetObserved

----------------------------------------------------------------------------
(* C6: check_packet_ returns WRONG_PACKET if and only if len < 17, or      *)
(* buffer[0] is not 0x24, or the sum of bytes 0..15 modulo 256 differs     *)
(* from buffer[16]; bytes at index 17 and above never reject a buffer.     *)
C6_FrameRejection ==
  Received =>
    (tick.packet_type = WRONG_PACKET
       <=> \/ Len(tick.rx) < 17
           \/ tick.rx[1] # 36
           \/ PrimarySum(tick.rx) # tick.rx[17])

\* A buffer with the sync byte and full length rejected for its checksum
C6_Witness ==
  /\ Len(tick.rx) >= 17
  /\ tick.rx[1] = 36
  /\ PrimarySum(tick.rx) # tick.rx[17]
  /\ tick.packet_type = WRONG_PACKET

----------------------------------------------------------------------------
(* C7: for a buffer that passes the primary checks, check_packet_ returns  *)
(* BASIC_WITH_PRESSURE if and only if len >= 21 and the sum of bytes       *)
(* 17..19 modulo 256 equals buffer[20]; otherwise BASIC_PACKET.            *)
C7_VariantSelection ==
  (Received /\ PrimaryOk(tick.rx)) =>
    tick.packet_type =
      IF Len(tick.rx) >= 21 /\ SecondarySum(tick.rx) = tick.rx[21]
        THEN BASIC_WITH_PRESSURE ELSE BASIC_PACKET

\* A buffer longer than 21 bytes accepted with its pressure block
C7_Witness ==
  /\ Len(tick.rx) > 21
  /\ SecondaryOk(tick.rx)
  /\ tick.packet_type = BASIC_WITH_PRESSURE

----------------------------------------------------------------------------
(* C8: a 21-byte buffer with a correct primary checksum whose byte 20 is   *)
(* changed so that the secondary checksum fails is processed as Basic: the *)
(* pressure channel is published as NAN, and every other channel receives  *)
(* exactly what it receives, from the same state, for the buffer with the  *)
(* correct byte 20.                                                        *)
C8_DegradedFrame ==
  [][(Received' /\ Len(tick'.rx) = 21 /\ PrimaryOk(tick'.rx) /\ ~SecondaryOk(tick'.rx))
       => \E r \in {LoopResult(build, ws, statics,
                               [tick'.rx EXCEPT ![21] = SecondarySum(tick'.rx)],
                               now', now')} :
            /\ r.tick.packet_type = BASIC_WITH_PRESSURE
            /\ tick'.packet_type = BASIC_PACKET
            /\ Configured("pressure")
                 => /\ ws'.state["pressure"] = NAN
                    /\ ~IsNan(r.ws.state["pressure"])
            /\ \A c \in Channels \ {"pressure"} :
                 /\ ws'.state[c] = r.ws.state[c]
                 /\ PubsOf(ws'.published, c) = PubsOf(r.ws.published, c)]_vars

\* A frame with a corrupt byte 20 was processed: pressure is unknown and the
\* primary fields were published
C8_Witness ==
  /\ Len(tick.rx) = 21 /\ PrimaryOk(tick.rx) /\ ~SecondaryOk(tick.rx)
  /\ ws.state["pressure"] = NAN
  /\ ValuesOf("pressure") # <<>>
  /\ ValuesOf("temperature") # <<>>
  /\ ~IsNan(ws.state["temperature"])

----------------------------------------------------------------------------
(* C9, as stated: when the received buffer is Invalid, the call publishes  *)
(* nothing, leaves the Night Detector state and the precipitation baseline *)
(* unchanged, and modifies only first_data_received and last_packet_time.  *)
C9_MalformedFrameOriginal ==
  [][(Received' /\ ~PrimaryOk(tick'.rx))
       => /\ statics' = statics
          /\ ws' = [ws EXCEPT !.first_data_received_ = TRUE,
                              !.last_packet_time_ = now',
                              !.published = <<>>]]_vars

(* C9, amended: when the received buffer is Invalid, the Night Detector    *)
(* state and the baseline timestamp are unchanged and first_data_received  *)
(* and last_packet_time are updated.  If the watchdog did not fire on the  *)
(* call, nothing is published and nothing else changes.  If it fired, the  *)
(* call's only publications are the reset's NAN values on the configured   *)
(* sensors, and the only other change is the reset's drop of the baseline. *)
C9_MalformedFrame ==
  [][(Received' /\ ~PrimaryOk(tick'.rx))
       => /\ statics' = statics
          /\ tick'.packet_type = WRONG_PACKET
          /\ IF tick'.timeout
               THEN /\ \A i \in 1..Len(ws'.published) :
                         /\ ws'.published[i][1] \in ws.sensors \cap NumericChannels
                         /\ ws'.published[i][2] = NAN
                    /\ \A c \in BinaryChannels : ws'.state[c] = ws.state[c]
                    /\ ws'.previous_precipitation_
                         \in {ws.previous_precipitation_, NoBaseline}
                    /\ [ws' EXCEPT !.state = ws.state,
                                   !.previous_precipitation_ = ws.previous_precipitation_]
                         = [ws EXCEPT !.first_data_received_ = TRUE,
                                      !.last_packet_time_ = now',
                                      !.published = ws'.published]
               ELSE ws' = [ws EXCEPT !.first_data_received_ = TRUE,
                                     !.last_packet_time_ = now',
                                     !.published = <<>>]]_vars

\* An invalid buffer arrived in a live session that had detector state and a
\* baseline to keep
C9_Witness ==
  /\ Received /\ ~PrimaryOk(tick.rx)
  /\ ~tick.timeout
  /\ ws.published = <<>>
  /\ HasBaseline
  /\ ~statics.first_run
  /\ ~IsNan(ws.state["temperature"])

----------------------------------------------------------------------------
(* Precipitation estimator, as observed over one call of loop() *)

\* The minimum interval of the build, in milliseconds
MinInterval ==
  IF build = "misol_weather" THEN ws.precipitation_intensity_interval_
                             ELSE PRECIPITATION_INTENSITY_INTERVAL

\* The baseline counter in place when the packet of the next call is
\* processed: the reset, if it runs on that call, comes first
BaselineAtProcessing ==
  IF tick'.timeout /\ "precipitation_intensity" \in ws.sensors
    THEN NoBaseline ELSE ws.previous_precipitation_

BaselineUnchanged ==
  /\ ws'.previous_precipitation_ = BaselineAtProcessing
  /\ ws'.previous_precipitation_timestamp_ = ws.previous_precipitation_timestamp_

AccumulatedPublished ==
  Configured("accumulated_precipitation")
    => Len(ValuesOf("accumulated_precipitation")) >= 1

(* C10, as stated, on the packets whose counter the build takes as a       *)
(* reading: with a baseline present and elapsed = now - baseline_time, a   *)
(* rate is published and the baseline advanced to (counter, now) exactly   *)
(* when elapsed > min_interval; otherwise no rate and the baseline is      *)
(* unchanged; with no baseline the packet's counter and the clock become   *)
(* the baseline and no rate is published; the accumulated total is         *)
(* published on every valid packet.                                        *)
C10_RateGatingOriginal ==
  [][(Received' /\ PrimaryOk(tick'.rx))
       => /\ AccumulatedPublished'
          /\ ~(build = "misol" /\ CounterOf(tick'.rx) = 65535) =>
               IF BaselineAtProcessing # NoBaseline
                 THEN IF now' - ws.previous_precipitation_timestamp_ > MinInterval
                        THEN /\ Configured("precipitation_intensity") => RatePublished'
                             /\ ws'.previous_precipitation_ = CounterOf(tick'.rx)
                             /\ ws'.previous_precipitation_timestamp_ = now'
                        ELSE ~RatePublished' /\ BaselineUnchanged
                 ELSE /\ ~RatePublished'
                      /\ ws'.previous_precipitation_ = CounterOf(tick'.rx)
                      /\ ws'.previous_precipitation_timestamp_
                           \in now'..(now' + MaxClockLag)]_vars

----------------------------------------------------------------------------
(* C11: whenever a call publishes a rate for a packet whose counter and    *)
(* baseline are real readings (not 0xFFFF), the rate equals                *)
(* (accumulated_counter - baseline_counter) * 0.3 / elapsed_in_hours,      *)
(* where baseline_counter is the baseline in place before the packet was   *)
(* processed and elapsed is the whole seconds since the baseline was       *)
(* taken.  With the value num / den and elapsed s seconds the equality is  *)
(* num * s = (counter - baseline) * 1080 * den.                            *)
C11_RateValue ==
  [][(/\ Processed' /\ RatePublished'
      /\ CounterOf(tick'.rx) # 65535
      /\ BaselineAtProcessing # 65535)
       => \A i \in 1..Len(ValuesOf("precipitation_intensity")') :
            ~IsNan(ValuesOf("precipitation_intensity")'[i])
              => ValuesOf("precipitation_intensity")'[i][1]
                   * ((now' - ws.previous_precipitation_timestamp_) \div 1000)
                 = (CounterOf(tick'.rx) - BaselineAtProcessing) * 1080
                   * ValuesOf("precipitation_intensity")'[i][2]]_vars

----------------------------------------------------------------------------
(* C12: when a valid packet carries the counter 0xFFFF, the estimator is   *)
(* left with no baseline and publishes no rate; 0xFFFF is never held as a  *)
(* baseline; and a packet with a real counter that directly follows only   *)
(* establishes a fresh baseline (its counter, a clock reading of its       *)
(* call) and publishes no rate.                                            *)
C12_SentinelHandling ==
  [][/\ (Processed' /\ CounterOf(tick'.rx) = 65535)
          => ~HasBaseline' /\ ~RatePublished'
     /\ HasBaseline' => ws'.previous_precipitation_ # 65535
     /\ (/\ Processed /\ CounterOf(tick.rx) = 65535
         /\ Processed' /\ CounterOf(tick'.rx) # 65535)
          => /\ ~RatePublished'
             /\ ws'.previous_precipitation_ = CounterOf(tick'.rx)
             /\ ws'.previous_precipitation_timestamp_
                  \in now'..(now' + MaxClockLag)]_vars

----------------------------------------------------------------------------
(* C13: when a valid packet carries a counter smaller than the baseline    *)
(* counter in place, no rate is published from that pair; and no call      *)
(* ever publishes a negative rate.                                         *)
C13_CounterWrap ==
  [][/\ (/\ Processed'
         /\ BaselineAtProcessing # NoBaseline
         /\ CounterOf(tick'.rx) < BaselineAtProcessing)
          => ~RatePublished'
     /\ \A i \in 1..Len(ValuesOf("precipitation_intensity")') :
          ValuesOf("precipitation_intensity")'[i][1] >= 0]_vars

----------------------------------------------------------------------------
(* Night Detector, as observed at the night sink of the station *)

\* detect_night was called on the last call of loop()
NightCalled == Processed /\ Configured("night") /\ UvOf(tick.rx) # 65535

\* The result the transition rule gives, from the value the station's night
\* sink holds (NAN: the station has published none yet; else its last
\* result).  uv, lower and upper are given in tenths; the rule is evaluated
\* on the floats the detector receives.
NightRule(held, uv, lower, upper) ==
  IF IsNan(held) THEN Bool(BelowMidpoint(uv, lower, upper))
  ELSE IF held = Bool(TRUE) THEN Bool(BelowThreshold(uv, upper))
  ELSE Bool(BelowThreshold(uv, lower))

(* C14: within one session, the first call of the detector gives           *)
(* uv_intensity < (lower + upper) / 2; every later call gives              *)
(* uv_intensity < upper if the previous result was night and               *)
(* uv_intensity < lower if it was day; the result of each call is the      *)
(* previous result of the next.                                            *)
C14_TransitionRule ==
  [][NightCalled'
       => ValuesOf("night")' =
            << NightRule(ws.state["night"], UvOf(tick'.rx),
                         ws.lower_night_threshold_, ws.upper_night_threshold_) >>]_vars

\* A later call after a day result: 4.8 is below the midpoint 5.0 but not
\* below the lower threshold 4.5, and the result is day
C14_Witness ==
  /\ NightCalled
  /\ ws.lower_night_threshold_ = 45 /\ ws.upper_night_threshold_ = 55
  /\ UvOf(tick.rx) = 48
  /\ ValuesOf("night") = << Bool(FALSE) >>

----------------------------------------------------------------------------
(* C15: with lower <= upper, on every call after the first: a reading      *)
(* strictly between the thresholds leaves the night result as it was; the  *)
(* result goes from day to night only on a reading below lower, and from   *)
(* night to day only on a reading at or above upper.                       *)
C15_Hysteresis ==
  [][(/\ NightCalled'
      /\ ~IsNan(ws.state["night"])
      /\ ws.lower_night_threshold_ <= ws.upper_night_threshold_)
       => /\ Len(ValuesOf("night")') = 1
          /\ (/\ ws.lower_night_threshold_ < UvOf(tick'.rx)
              /\ UvOf(tick'.rx) < ws.upper_night_threshold_)
               => ws'.state["night"] = ws.state["night"]
          /\ (ws.state["night"] = Bool(FALSE) /\ ws'.state["night"] = Bool(TRUE))
               => UvOf(tick'.rx) < ws.lower_night_threshold_
          /\ (ws.state["night"] = Bool(TRUE) /\ ws'.state["night"] = Bool(FALSE))
               => UvOf(tick'.rx) >= ws.upper_night_threshold_]_vars

\* A reading at the midpoint published as night: the first-call rule would
\* give day, so this is a later call that kept an earlier night result
C15_Witness ==
  /\ NightCalled
  /\ ws.lower_night_threshold_ = 45 /\ ws.upper_night_threshold_ = 55
  /\ UvOf(tick.rx) = 50
  /\ ws.state["night"] = Bool(TRUE)

----------------------------------------------------------------------------
(* The night results of the documented example, as documented and as the   *)
(* detector returns them (TRUE is night)                                   *)
ExampleDocumented == <<FALSE, TRUE, TRUE, FALSE>>
ExampleReturned == <<FALSE, FALSE, FALSE, FALSE>>

(* C16, as stated: with lower 4.5 and upper 5.5 a fresh detector given     *)
(* 6.0, 5.0, 4.8, 5.6 returns day, night, night, day in that order.        *)
C16_ExampleOriginal ==
  ExamplePosition >= 1
    => ws.state["night"] = Bool(ExampleDocumented[ExamplePosition])

(* C16, amended: with lower 4.5 and upper 5.5 a fresh detector given       *)
(* 6.0, 5.0, 4.8, 5.6 returns day, day, day, day in that order (after a    *)
(* day result only a reading below 4.5 gives night).                       *)
C16_Example ==
  ExamplePosition >= 1
    => ws.state["night"] = Bool(ExampleReturned[ExamplePosition])

\* The fourth reading of the example has been evaluated
C16_Witness ==
  /\ ExamplePosition = 4
  /\ NightCalled
  /\ ValuesOf("night") = << Bool(FALSE) >>

----------------------------------------------------------------------------
(* Field decoder, as observed on the processed buffer: the raw values by   *)
(* the layout of the protocol, on the 1-based buffer                       *)

RawOf(rx) ==
  [wind_direction |-> rx[3] + 256 * (rx[4] \div 128),
   temperature    |-> rx[5] + 256 * (rx[4] % 8),
   humidity       |-> rx[6],
   wind_speed     |-> rx[7] + 256 * ((rx[4] \div 16) % 2),
   wind_gust      |-> rx[8],
   counter        |-> rx[10] + 256 * rx[9],
   uv             |-> rx[12] + 256 * rx[11],
   light          |-> rx[15] + 256 * rx[14] + 65536 * rx[13]]

\* The channels that publish a field, and those derived from it
ChannelsOf ==
  [wind_direction |-> {"wind_direction_degrees"},
   temperature    |-> {"temperature"},
   humidity       |-> {"humidity"},
   wind_speed     |-> {"wind_speed"},
   wind_gust      |-> {"wind_gust"},
   counter        |-> {"accumulated_precipitation"},
   uv             |-> {"uv_intensity", "uv_index"},
   light          |-> {"light"}]
DerivedOf ==
  [f \in FieldNames |->
     IF f = "uv" THEN {"night"}
     ELSE IF f = "counter" THEN {"precipitation_intensity"}
     ELSE {}]

\* The fields C17 lists
ListedFields ==
  {"wind_direction", "temperature", "wind_speed", "wind_gust", "uv", "light"}

\* The buffer rx with field f at its typical raw value and the checksum redone
WithTypical(rx, f) ==
  LET b == IF f = "wind_direction" THEN [rx EXCEPT ![3] = 90, ![4] = @ % 128]
           ELSE IF f = "temperature"
             THEN [rx EXCEPT ![5] = 158, ![4] = (@ \div 8) * 8 + 2]
           ELSE IF f = "wind_speed"
             THEN [rx EXCEPT ![7] = 16, ![4] = @ - 16 * ((@ \div 16) % 2)]
           ELSE IF f = "wind_gust" THEN [rx EXCEPT ![8] = 3]
           ELSE IF f = "uv" THEN [rx EXCEPT ![11] = 0, ![12] = 60]
           ELSE [rx EXCEPT ![13] = 1, ![14] = 35, ![15] = 69]
  IN [b EXCEPT ![17] = PrimarySum(b)]

(* C17: for every validated buffer and each of wind direction,             *)
(* temperature, wind speed, wind gust, UV and illuminance: a raw value     *)
(* equal to the field's sentinel publishes NAN on the field's channels     *)
(* (UV index with UV), any other raw value publishes one finite value,     *)
(* and every channel that is not the field's own or derived from it        *)
(* receives exactly what it receives, from the same state, for the buffer  *)
(* that carries a real reading in that field.                              *)
C17_SentinelDecoding ==
  [][Processed'
       => \A f \in ListedFields :
            /\ \A c \in ChannelsOf[f] \cap ws.sensors :
                 /\ Len(ValuesOf(c)') = 1
                 /\ IsNan(ValuesOf(c)'[1]) <=> RawOf(tick'.rx)[f] = SentinelRaw[f]
            /\ RawOf(tick'.rx)[f] = SentinelRaw[f]
                 => \E r \in {LoopResult(build, ws, statics,
                                         WithTypical(tick'.rx, f), now', now')} :
                      \A c \in Channels \ (ChannelsOf[f] \cup DerivedOf[f]) :
                        PubsOf(ws'.published, c) = PubsOf(r.ws.published, c)]_vars

\* Wind direction alone is at its sentinel: its channel holds NAN and the
\* channels of the other fields hold readings
C17_Witness ==
  /\ Processed
  /\ RawOf(tick.rx).wind_direction = 511
  /\ RawOf(tick.rx).temperature = 255
  /\ ws.state["wind_direction_degrees"] = NAN
  /\ ~IsNan(ws.state["temperature"])
  /\ ~IsNan(ws.state["wind_speed"])
  /\ ~IsNan(ws.state["uv_index"])

----------------------------------------------------------------------------
(* C18: for every validated buffer, humidity byte5 = 0xFF publishes NAN on *)
(* the humidity channel and accumulated-precipitation raw 0xFFFF publishes *)
(* NAN on the accumulated-precipitation channel.                           *)
C18_HumidityPrecipitationSentinel ==
  Processed =>
    /\ (RawOf(tick.rx).humidity = 255 /\ Configured("humidity"))
         => ValuesOf("humidity") = << NAN >>
    /\ (RawOf(tick.rx).counter = 65535 /\ Configured("accumulated_precipitation"))
         => ValuesOf("accumulated_precipitation") = << NAN >>

----------------------------------------------------------------------------
(* C19: with two stations in one process, the night result a station       *)
(* publishes is a function of its own valid UV readings and thresholds     *)
(* only: on every call of ws.loop() that evaluates the detector, the       *)
(* published value is what the transition rule gives from the last night   *)
(* result of ws itself (none yet: the first-call rule), whatever packets   *)
(* the other station has processed.                                        *)
C19_SessionIsolation ==
  [][(ws'.last_packet_time_ = now' /\ NightCalled')
       => ValuesOf("night")' =
            << NightRule(ws.state["night"], UvOf(tick'.rx),
                         ws.lower_night_threshold_, ws.upper_night_threshold_) >>]_vars

----------------------------------------------------------------------------
(* Tick ordering, as observed over one call of loop() *)

\* The station as it is constructed, with the configuration of ws
Fresh(w) ==
  [w EXCEPT !.first_data_received_ = FALSE,
            !.previous_precipitation_ = NoBaseline,
            !.state = [c \in Channels |-> NAN],
            !.published = <<>>]

(* C20: when a valid packet arrives on the first call after more than the  *)
(* timeout of silence, the reset runs first, on the timestamp of that      *)
(* call, and the packet is processed after it: the call logs the timeout   *)
(* and then a "First packet", every configured sensor is first driven to   *)
(* NAN, and the call ends with first_data_received true, last_packet_time  *)
(* the call's timestamp, and every numeric channel and the battery channel *)
(* holding what the packet gives a newly constructed station; the night    *)
(* channel is written exactly when the packet has a UV reading; with the   *)
(* rate sensor configured no rate is published and the baseline is the     *)
(* packet's own.                                                           *)
C20_TickOrdering ==
  [][(/\ Received' /\ PrimaryOk(tick'.rx)
      /\ ws.first_data_received_
      /\ now' - ws.last_packet_time_ > COMMUNICATION_TIMOUT)
       => \E r \in {LoopResult(build, Fresh(ws), statics, tick'.rx, now', now')} :
            /\ ResetObserved'
            /\ tick'.received = "First packet"
            /\ ws'.first_data_received_
            /\ ws'.last_packet_time_ = now'
            /\ \A c \in NumericChannels \cup {"battery_level"} :
                 ws'.state[c] = r.ws.state[c]
            /\ (ValuesOf("night")' # <<>>)
                 <=> (Configured("night") /\ UvOf(tick'.rx) # 65535)
            /\ Configured("precipitation_intensity")
                 => /\ ~RatePublished'
                    /\ ws'.previous_precipitation_ = r.ws.previous_precipitation_]_vars

\* A packet processed on the call that reset the station: its temperature
\* sensor received NAN and then the packet's reading
C20_Witness ==
  /\ tick.timeout
  /\ Processed
  /\ tick.received = "First packet"
  /\ ws.first_data_received_
  /\ ws.last_packet_time_ = now
  /\ Len(ValuesOf("temperature")) = 2
  /\ IsNan(ValuesOf("temperature")[1])
  /\ ~IsNan(ws.state["temperature"])

----------------------------------------------------------------------------
(* C21: when a valid packet carries the UV sentinel 0xFFFF, detect_night   *)
(* is not called: the call publishes nothing on the night channel, the     *)
(* night sink keeps its value and the detector's history (previous result  *)
(* and first-run flag) is unchanged; the valid UV reading of the call that *)
(* follows is evaluated against the result from before the sentinel        *)
(* packet.                                                                 *)
C21_NightSkippedOnSentinel ==
  [][/\ (Received' /\ PrimaryOk(tick'.rx) /\ UvOf(tick'.rx) = 65535)
          => /\ ValuesOf("night")' = <<>>
             /\ ws'.state["night"] = ws.state["night"]
             /\ statics' = statics
     /\ (/\ Processed /\ UvOf(tick.rx) = 65535
         /\ NightCalled' /\ ~IsNan(ws.state["night"]))
          => /\ statics.previous_result = (ws.state["night"] = Bool(TRUE))
             /\ ~statics.first_run
             /\ ValuesOf("night")' =
                  << Bool(IF ws.state["night"] = Bool(TRUE)
                            THEN UvOf(tick'.rx) < ws.upper_night_threshold_
                            ELSE UvOf(tick'.rx) < ws.lower_night_threshold_) >>]_vars

\* A sentinel packet processed after a night result: nothing was published
\* on the night channel and the detector still remembers night
C21_Witness ==
  /\ Processed
  /\ UvOf(tick.rx) = 65535
  /\ IsNan(ws.state["uv_intensity"])
  /\ ValuesOf("night") = <<>>
  /\ ws.state["night"] = Bool(TRUE)
  /\ statics.previous_result
  /\ ~statics.first_run

----------------------------------------------------------------------------
(* C22: the reset action runs only on a call before which bytes were       *)
(* available on some call since the previous reset action (since           *)
(* construction, for the first reset): after a reset it does not run again *)
(* until a further buffer has been received, and between two consecutive   *)
(* reset actions there is a call on which bytes were available.            *)
C22_TimeoutOncePerSilence ==
  [][tick'.timeout => heard]_vars

\* A silent call long after the last buffer on which the reset did not run
\* again: the station was reset after that buffer and has heard nothing since
C22_Witness ==
  /\ ~heard
  /\ ws.last_packet_time_ > 0
  /\ tick.rx = <<>>
  /\ ~tick.timeout
  /\ now - ws.last_packet_time_ > COMMUNICATION_TIMOUT
  /\ ~ws.first_data_received_

----------------------------------------------------------------------------
(* C23: when a session is active and from some call on no bytes become     *)
(* available while loop() keeps being called and the clock keeps           *)
(* advancing, the reset action eventually runs and first_data_received     *)
(* becomes false; once false it stays false on every call without bytes,   *)
(* so after the last buffer it is eventually false for ever.               *)
C23_TimeoutLiveness ==
  /\ ws.first_data_received_ ~> (tick.timeout /\ ~ws.first_data_received_)
  /\ [][(~ws.first_data_received_ /\ tick'.rx = <<>>)
          => ~ws'.first_data_received_]_vars
  /\ <>[](~ws.first_data_received_)

\* The reset action ran on a silent call more than the timeout after the
\* last buffer of an active session and ended the session
C23_Witness ==
  /\ ResetObserved
  /\ tick.rx = <<>>
  /\ now > LastByteTime
  /\ ws.last_packet_time_ > 0
  /\ now - ws.last_packet_time_ > COMMUNICATION_TIMOUT
  /\ ~ws.first_data_received_

====
